---- MODULE Spec2Model ----
(***************************************************************************)
(* Model of the two benchmark plotting scripts of ldbc:                    *)
(*   script/plot_benchmark.py     (pipeline A: glob of JMH result files)   *)
(*   script/python/visualize.py   (pipeline B: one table, explicit ticks)  *)
(*                                                                         *)
(* Numbers.  A Python float or int that the scripts handle is modelled as  *)
(* a fixed-point integer counting units of 1/Res, Res = 20, so that 1.0 is *)
(* 20, 0.1 is 2 and 0.05 is 1.  Values with one decimal place are the even *)
(* ones; the odd ones have a second decimal place, which int(x * 10)       *)
(* truncates.                                                              *)
(*                                                                         *)
(* Strings that the scripts take apart (benchmark identifiers, parameter   *)
(* values) are sequences of one-character strings.                         *)
(***************************************************************************)
EXTENDS Integers, Sequences, FiniteSets, TLC

VARIABLES
    \* ---- ticks(min, max, step) called on its own
    tpc, tmin, tmax, tstep, tout,
    \* ---- pipeline B, visualize.py
    pcB, feature, conf, df, source, fileRead, xticks, yticks, outputB, errB,
    \* ---- pipeline A, plot_benchmark.py
    pcA, nFiles, fileIdx, results, recIdx, data, table, rendered, outputA, errA,
    loaded, processed, sawBad

varsT == <<tpc, tmin, tmax, tstep, tout>>
varsB == <<pcB, feature, conf, df, source, fileRead, xticks, yticks, outputB, errB>>
varsA == <<pcA, nFiles, fileIdx, results, recIdx, data, table, rendered, outputA,
           errA, loaded, processed, sawBad>>
vars == <<varsT, varsB, varsA>>

----------------------------------------------------------------------------
\* Bounds of the model.

\* ticks on its own: min and max range over -MaxAbs..MaxAbs units of 1/Res
MaxAbs == 30
\* ticks on its own: step ranges over 0..MaxStep units of 1/Res
MaxStep == 22
\* pipeline B: rows of the table in the data file
MaxRows == 2
\* pipeline A: files matched by the glob
MaxFiles == 2
\* pipeline A: records read over the whole run
MaxRecords == 2
\* pipeline A: parameters of one record
MaxParams == 2
\* pipeline A: characters of a benchmark identifier (identifier corpus)
MaxIdLen == 2

----------------------------------------------------------------------------
\* Numbers and Python's arithmetic on them.

\* units per 1.0
Res == 2 * 10

\* the number i + t/10, t a single decimal digit (sign carried by both)
Dec(i, t) == (i * 10 + t) * (Res \div 10)

\* the whole number i
Whole(i) == i * Res

OneDecimal(x) == x % (Res \div 10) = 0

\* Python's int() of a quotient a / b, b > 0: truncation toward zero
TruncDiv(a, b) == IF a >= 0 THEN a \div b ELSE -((-a) \div b)

\* int(x * 10) for a number x
IntTimes10(x) == TruncDiv(x * 10, Res)

\* n / 10 for an int n
DivBy10(n) == (n * Res) \div 10

\* list(range(start, stop, step)) for step > 0
PyRange(start, stop, step) ==
    IF stop <= start THEN <<>>
    ELSE [i \in 1..((stop - start + step - 1) \div step) |-> start + (i - 1) * step]

----------------------------------------------------------------------------
\* visualize.py: ticks

NoError == "none"

ticks_ceil(min, max, step) ==
    LET smin == IntTimes10(min)
        smax == IntTimes10(max)
        sstep == IntTimes10(step)
    IN  IF sstep = 0
        THEN [err |-> "ZeroDivisionError", val |-> <<>>]
        ELSE LET stop == (TruncDiv(smax, sstep) + 1) * sstep + 1
                 r == PyRange(smin, stop, sstep)
             IN  [err |-> NoError, val |-> [i \in DOMAIN r |-> DivBy10(r[i])]]

\* def ticks(min, max, step): the three arguments are scaled by 10 and
\* truncated, max / step raises on a zero scaled step, and every element of
\* the range is divided by 10 again
ticks(min, max, step) ==
    LET smin == IntTimes10(min)
        smax == IntTimes10(max)
        sstep == IntTimes10(step)
    IN  IF sstep = 0
        THEN [err |-> "ZeroDivisionError", val |-> <<>>]
        ELSE LET stop == TruncDiv(smax, sstep) * sstep + 1
                 r == PyRange(smin, stop, sstep)
             IN  [err |-> NoError, val |-> [i \in DOMAIN r |-> DivBy10(r[i])]]

----------------------------------------------------------------------------
\* The state of a script that is not the one being run.

IdleT ==
    /\ tpc = "idle" /\ tmin = 0 /\ tmax = 0 /\ tstep = 0
    /\ tout = [err |-> NoError, val |-> <<>>]

NoConf == [xlabel |-> "", ylabel |-> "", xmin |-> 0, ymin |-> 0, xstep |-> 0, ystep |-> 0]

NoRaise == [type |-> NoError, line |-> 0]

IdleB ==
    /\ pcB = "idle" /\ feature = "" /\ conf = NoConf /\ df = <<>>
    /\ source = [exists |-> FALSE, rows |-> <<>>]
    /\ fileRead = FALSE /\ xticks = <<>> /\ yticks = <<>>
    /\ outputB = FALSE /\ errB = NoRaise

IdleA ==
    /\ pcA = "idle" /\ nFiles = 0 /\ fileIdx = 0 /\ results = <<>> /\ recIdx = 0
    /\ data = <<>> /\ table = [returned |-> FALSE, rows |-> <<>>]
    /\ rendered = FALSE /\ outputA = FALSE
    /\ errA = NoRaise /\ loaded = 0 /\ processed = <<>> /\ sawBad = FALSE

----------------------------------------------------------------------------
\* ticks(min, max, step) called with arguments of a bounded range.

InitTicks ==
    /\ tpc = "call"
    /\ tmin \in -MaxAbs..MaxAbs
    /\ tmax \in -MaxAbs..MaxAbs
    /\ tstep \in 0..MaxStep
    /\ tout = [err |-> NoError, val |-> <<>>]
    /\ IdleB /\ IdleA

CallTicks ==
    /\ tpc = "call"
    /\ tout' = ticks(tmin, tmax, tstep)
    /\ tpc' = IF tout'.err = NoError THEN "returned" ELSE "raised"
    /\ UNCHANGED <<tmin, tmax, tstep, varsB, varsA>>

NextTicks == CallTicks

SpecTicks == InitTicks /\ [][NextTicks]_vars

\* the arguments the claims about ticks speak of: at most one decimal place
\* each, and step >= 0.1
TickArgs == OneDecimal(tmin) /\ OneDecimal(tmax) /\ OneDecimal(tstep) /\ tstep >= Dec(0, 1)

\* the sequence min, min + step, ..., min + K*step, K the largest k >= 0
\* with min + k*step <= max (for min <= max and step > 0)
StepsFromMin(min, max, step) ==
    [i \in 1..(((max - min) \div step) + 1) |-> min + (i - 1) * step]

\* C1: for arguments with at most one decimal place, step >= 0.1 and min, max
\* of any sign, every element t of ticks(min, max, step) satisfies min <= t,
\* t = min + k*step for some non-negative integer k, and t <= max.
C1_TickWithinMinMax ==
    (tpc = "returned" /\ TickArgs) =>
        \A i \in DOMAIN tout.val :
            /\ tmin <= tout.val[i]
            /\ \E k \in 0..Len(tout.val) : tout.val[i] = tmin + k * tstep
            /\ tout.val[i] <= tmax

\* C2: for arguments with at most one decimal place, step >= 0.1 and
\* min <= max (min not required to be a multiple of step), ticks returns
\* exactly min, min + step, ..., min + K*step, K the largest non-negative
\* integer with min + K*step <= max.
C2_TicksAreStepsFromMin ==
    (tpc # "call" /\ TickArgs /\ tmin <= tmax) =>
        /\ tpc = "returned"
        /\ tout.val = StepsFromMin(tmin, tmax, tstep)

\* C10: for arguments with at most one decimal place, step >= 0.1 and
\* max < min (either of any sign), ticks raises no error and returns a
\* sequence of length 0 or 1.
C10_DegenerateRange ==
    (tpc # "call" /\ TickArgs /\ tmax < tmin) =>
        /\ tpc = "returned"
        /\ tout.err = NoError
        /\ Len(tout.val) <= 1

\* C10's case: max < min, both negative, and the single-element outcome
C10_Witness ==
    /\ tpc = "returned" /\ TickArgs
    /\ tmax < tmin /\ tmin < 0
    /\ Len(tout.val) = 1

----------------------------------------------------------------------------
\* Pipeline B: visualize.py, run as  visualize.py <feature> <data_file> <output>

target_names == [ldbc |-> "ldbc", jdbc |-> "jdbc"]

InsertConf ==
    [xlabel |-> "Record size", ylabel |-> "Throughput (ops/s)",
     xmin |-> Whole(0), ymin |-> Whole(20), xstep |-> Whole(1000), ystep |-> Whole(10)]

BatchConf ==
    [xlabel |-> "Record size", ylabel |-> "Throughput (ops/s)",
     xmin |-> Whole(0), ymin |-> Whole(20), xstep |-> Whole(1000), ystep |-> Whole(10)]

SelectConf ==
    [xlabel |-> "Record size", ylabel |-> "Throughput (ops/s)",
     xmin |-> Whole(0), ymin |-> Whole(20), xstep |-> Whole(1000), ystep |-> Whole(10)]

plot_config == [Insert |-> InsertConf, Batch |-> BatchConf, Select |-> SelectConf]

\* a cell of the target column: a string, or pandas' missing value NaN
Str(s) == [isna |-> FALSE, s |-> s]
NaN == [isna |-> TRUE, s |-> ""]

Raise(type, line) == [type |-> type, line |-> line]

LookupConf_default(f) ==
    IF f \in DOMAIN plot_config
    THEN [ok |-> TRUE, val |-> plot_config[f]]
    ELSE [ok |-> TRUE, val |-> InsertConf]

\* plot_config[feature]: a dict subscript, KeyError on a missing key
LookupConf(f) ==
    IF f \in DOMAIN plot_config
    THEN [ok |-> TRUE, val |-> plot_config[f]]
    ELSE [ok |-> FALSE, val |-> NoConf]

MapCell_passthrough(d, c) ==
    IF c.isna THEN NaN
    ELSE IF c.s \in DOMAIN d THEN Str(d[c.s]) ELSE c

\* Series.map(dict) on one cell: the value of the cell's key, and NaN for a
\* cell that is no key of the dict
MapCell(d, c) ==
    IF c.isna THEN NaN
    ELSE IF c.s \in DOMAIN d THEN Str(d[c.s]) ELSE NaN

\* Series.max() of a column of numbers of a non-empty table
ColumnMax(t, col) ==
    CHOOSE m \in {t[i][col] : i \in DOMAIN t} : \A i \in DOMAIN t : t[i][col] <= m

\* the inputs of the modelled runs
Features == {"Insert", "Batch", "Select", "Update", "insert"}
Targets == {"ldbc", "jdbc", "mysql"}
Indexes == {Whole(1000), Whole(2500)}
Scores == {Dec(47, 5), Whole(12)}
SourceRows == [target : Targets, index : Indexes, score : Scores]
Tables == UNION {[1..n -> SourceRows] : n \in 0..MaxRows}

InitB ==
    /\ pcB = "lookup"
    /\ feature \in Features
    /\ source \in {[exists |-> FALSE, rows |-> <<>>]}
                  \cup {[exists |-> TRUE, rows |-> t] : t \in Tables}
    /\ conf = NoConf /\ df = <<>> /\ fileRead = FALSE
    /\ xticks = <<>> /\ yticks = <<>> /\ outputB = FALSE /\ errB = NoRaise
    /\ IdleT /\ IdleA

\* line 49: conf = plot_config[feature]
Lookup ==
    /\ pcB = "lookup"
    /\ LET r == LookupConf(feature)
       IN  IF r.ok
           THEN /\ conf' = r.val
                /\ pcB' = "read"
                /\ errB' = errB
           ELSE /\ conf' = conf
                /\ pcB' = "failed"
                /\ errB' = Raise("KeyError", 49)
    /\ UNCHANGED <<feature, df, source, fileRead, xticks, yticks, outputB, varsT, varsA>>

\* line 51: df = pd.read_json(data_file)
ReadJson ==
    /\ pcB = "read"
    /\ IF source.exists
       THEN /\ df' = [i \in DOMAIN source.rows |->
                        [target |-> Str(source.rows[i].target),
                         index |-> source.rows[i].index,
                         score |-> source.rows[i].score]]
            /\ fileRead' = TRUE
            /\ pcB' = "remap"
            /\ errB' = errB
       ELSE /\ pcB' = "failed"
            /\ errB' = Raise("FileNotFoundError", 51)
            /\ UNCHANGED <<df, fileRead>>
    /\ UNCHANGED <<feature, conf, source, xticks, yticks, outputB, varsT, varsA>>

\* line 52: df['target'] = df['target'].map(target_names); a table without
\* rows has no columns, and df['target'] raises KeyError
Remap ==
    /\ pcB = "remap"
    /\ IF df = <<>>
       THEN /\ pcB' = "failed"
            /\ errB' = Raise("KeyError", 52)
            /\ df' = df
       ELSE /\ df' = [i \in DOMAIN df |->
                        [df[i] EXCEPT !.target = MapCell(target_names, @)]]
            /\ pcB' = "ticks"
            /\ errB' = errB
    /\ UNCHANGED <<feature, conf, source, fileRead, xticks, yticks, outputB, varsT, varsA>>

\* lines 54-62: xticks = ticks(xmin, xmax, xstep); yticks likewise
ComputeTicks ==
    /\ pcB = "ticks"
    /\ LET xmax == ColumnMax(df, "index")
           ymax == ColumnMax(df, "score")
           xt == ticks(conf.xmin, xmax, conf.xstep)
           yt == ticks(conf.ymin, ymax, conf.ystep)
       IN  IF xt.err # NoError
           THEN /\ pcB' = "failed" /\ errB' = Raise(xt.err, 61)
                /\ UNCHANGED <<xticks, yticks>>
           ELSE IF yt.err # NoError
           THEN /\ pcB' = "failed" /\ errB' = Raise(yt.err, 62)
                /\ xticks' = xt.val /\ yticks' = yticks
           ELSE /\ pcB' = "render" /\ errB' = errB
                /\ xticks' = xt.val /\ yticks' = yt.val
    /\ UNCHANGED <<feature, conf, df, source, fileRead, outputB, varsT, varsA>>

\* lines 64-80: the chart is drawn by the plotting library, which succeeds
\* or raises
Render ==
    /\ pcB = "render"
    /\ \E ok \in BOOLEAN :
        IF ok
        THEN pcB' = "save" /\ errB' = errB
        ELSE pcB' = "failed" /\ errB' = Raise("LibraryError", 65)
    /\ UNCHANGED <<feature, conf, df, source, fileRead, xticks, yticks, outputB, varsT, varsA>>

\* line 81: g.savefig(output, format='svg'), which writes the file or raises
SaveFigB ==
    /\ pcB = "save"
    /\ \E ok \in BOOLEAN :
        IF ok
        THEN pcB' = "done" /\ outputB' = TRUE /\ errB' = errB
        ELSE pcB' = "failed" /\ outputB' = outputB /\ errB' = Raise("OSError", 81)
    /\ UNCHANGED <<feature, conf, df, source, fileRead, xticks, yticks, varsT, varsA>>

NextB == Lookup \/ ReadJson \/ Remap \/ ComputeTicks \/ Render \/ SaveFigB

SpecB == InitB /\ [][NextB]_vars

Remapped == pcB \in {"ticks", "render", "save", "done"}

\* C3 as stated: after the target column is remapped through target_names,
\* every row whose original target is no key of the table still carries the
\* original value (no missing value in its place), and every row whose
\* original target is 'ldbc' or 'jdbc' carries the mapped value, which
\* equals the input.
C3_UnknownTargetPassesThrough ==
    Remapped =>
        \A i \in DOMAIN df :
            LET orig == source.rows[i].target
            IN  IF orig \in DOMAIN target_names
                THEN df[i].target = Str(target_names[orig]) /\ target_names[orig] = orig
                ELSE df[i].target = Str(orig)

\* C3 as amended: after the remapping, every row whose original target is no
\* key of target_names carries the missing value NaN (no error is raised),
\* and every row whose original target is 'ldbc' or 'jdbc' carries the
\* mapped value, which equals the input; the table keeps its rows.
C3_UnknownTargetBecomesNaN ==
    Remapped =>
        /\ Len(df) = Len(source.rows)
        /\ \A i \in DOMAIN df :
            LET orig == source.rows[i].target
            IN  IF orig \in DOMAIN target_names
                THEN df[i].target = Str(target_names[orig]) /\ target_names[orig] = orig
                ELSE df[i].target = NaN

\* C3's case: a remapped table with a row of a known and a row of an unknown
\* target
C3_Witness ==
    /\ Remapped
    /\ \E i, j \in DOMAIN df :
        /\ source.rows[i].target = "mysql" /\ df[i].target = NaN
        /\ source.rows[j].target = "jdbc" /\ df[j].target = Str("jdbc")

\* C6: a feature name that is none of Insert, Batch, Select ends the run in
\* the lookup's KeyError, before the data file is read and before any output
\* is written; for one of the three keys the lookup never fails.
C6_UnknownFeatureFailsFirst ==
    /\ (feature \notin {"Insert", "Batch", "Select"} /\ pcB # "lookup") =>
            /\ pcB = "failed" /\ errB = Raise("KeyError", 49)
            /\ ~fileRead /\ ~outputB /\ df = <<>>
    /\ feature \in {"Insert", "Batch", "Select"} => errB # Raise("KeyError", 49)

\* C6's case: the lookup failed for an unknown feature although a readable,
\* non-empty data file was there
C6_Witness ==
    /\ feature = "Update" /\ pcB = "failed" /\ errB.type = "KeyError"
    /\ source.exists /\ source.rows # <<>> /\ ~fileRead

----------------------------------------------------------------------------
\* Pipeline A: plot_benchmark.py, run as  plot_benchmark.py <glob> <output>

Min(S) == CHOOSE x \in S : \A y \in S : x <= y
Max(S) == CHOOSE x \in S : \A y \in S : y <= x

\* str.split(sep) for a one-character separator
RECURSIVE Split(_, _)
Split(s, sep) ==
    LET at == {i \in DOMAIN s : s[i] = sep}
    IN  IF at = {} THEN <<s>>
        ELSE <<SubSeq(s, 1, Min(at) - 1)>> \o Split(SubSeq(s, Min(at) + 1, Len(s)), sep)

DisplayName_first(benchmark) == Split(benchmark, ".")[1]

\* line 14: result['benchmark'].split('.')[-1]
DisplayName(benchmark) ==
    LET parts == Split(benchmark, ".") IN parts[Len(parts)]

DigitVal ==
    ("0" :> 0) @@ ("1" :> 1) @@ ("2" :> 2) @@ ("3" :> 3) @@ ("4" :> 4) @@
    ("5" :> 5) @@ ("6" :> 6) @@ ("7" :> 7) @@ ("8" :> 8) @@ ("9" :> 9)

RECURSIVE DigitsValue(_)
DigitsValue(d) ==
    IF d = <<>> THEN 0
    ELSE DigitsValue(SubSeq(d, 1, Len(d) - 1)) * 10 + DigitVal[d[Len(d)]]

\* str.strip() of blanks, which int() applies to a string first
Strip(s) ==
    LET keep == {i \in DOMAIN s : s[i] # " "}
    IN  IF keep = {} THEN <<>> ELSE SubSeq(s, Min(keep), Max(keep))

\* a parameter value as JSON gives it: a string, or a number
StrValue(s) == [kind |-> "str", s |-> s, v |-> 0]
NumValue(v) == [kind |-> "num", s |-> <<>>, v |-> v]

\* line 22: int(value).  A number is truncated toward zero; a string is
\* stripped and must be an optional sign and decimal digits (the modelled
\* strings hold no underscore), or int() raises ValueError.
PyInt(value) ==
    IF value.kind = "num"
    THEN [ok |-> TRUE, val |-> TruncDiv(value.v, Res)]
    ELSE LET t == Strip(value.s)
             signed == t # <<>> /\ t[1] \in {"+", "-"}
             digits == IF signed THEN Tail(t) ELSE t
         IN  IF digits # <<>> /\ \A i \in DOMAIN digits : digits[i] \in DOMAIN DigitVal
             THEN [ok |-> TRUE,
                   val |-> IF signed /\ t[1] = "-"
                           THEN -DigitsValue(digits) ELSE DigitsValue(digits)]
             ELSE [ok |-> FALSE, val |-> 0]

EmitRows_firstOnly(benchmark, params, score) ==
    IF params = <<>> THEN [err |-> NoError, rows |-> <<>>]
    ELSE IF ~PyInt(params[1].value).ok THEN [err |-> "ValueError", rows |-> <<>>]
    ELSE [err |-> NoError,
          rows |-> <<[benchmark |-> benchmark, param |-> params[1].name,
                      value |-> PyInt(params[1].value).val, score |-> score]>>]

\* lines 18-24: one row per (param, value) pair of params.items(), in order,
\* up to the first value int() refuses
EmitRows(benchmark, params, score) ==
    LET bad == {k \in DOMAIN params : ~PyInt(params[k].value).ok}
        stop == IF bad = {} THEN Len(params) + 1 ELSE Min(bad)
    IN  [err |-> IF bad = {} THEN NoError ELSE "ValueError",
         rows |-> [k \in 1..(stop - 1) |->
                     [benchmark |-> benchmark, param |-> params[k].name,
                      value |-> PyInt(params[k].value).val, score |-> score]]]

\* lines 14-24: the body of the loop over one file's results
LoopBody(result) ==
    IF "benchmark" \notin DOMAIN result
        THEN [err |-> Raise("KeyError", 14), rows |-> <<>>]
    ELSE IF "params" \notin DOMAIN result
        THEN [err |-> Raise("KeyError", 15), rows |-> <<>>]
    ELSE IF "primaryMetric" \notin DOMAIN result
            \/ "score" \notin DOMAIN result.primaryMetric
        THEN [err |-> Raise("KeyError", 16), rows |-> <<>>]
    ELSE LET e == EmitRows(DisplayName(result.benchmark), result.params,
                           result.primaryMetric.score)
         IN  [err |-> IF e.err = NoError THEN NoRaise ELSE Raise(e.err, 22),
              rows |-> e.rows]

JsonLoad_lenient(content) ==
    IF content.malformed THEN [ok |-> TRUE, val |-> <<>>]
    ELSE [ok |-> TRUE, val |-> content.records]

\* line 12: json.load(f), which raises on malformed JSON
JsonLoad(content) ==
    IF content.malformed THEN [ok |-> FALSE, val |-> <<>>]
    ELSE [ok |-> TRUE, val |-> content.records]

DataFrame_nonEmpty(rows) ==
    IF rows = <<>> THEN [ok |-> FALSE, rows |-> <<>>] ELSE [ok |-> TRUE, rows |-> rows]

\* line 25: pd.DataFrame(data); a list without rows gives a table without rows
DataFrame(rows) == [ok |-> TRUE, rows |-> rows]

NoTable == [returned |-> FALSE, rows |-> <<>>]

HasRequiredFields(result) ==
    /\ {"benchmark", "params", "primaryMetric"} \subseteq DOMAIN result
    /\ "score" \in DOMAIN result.primaryMetric

\* the inputs of the modelled runs

\* "a.b.Bench.run"
ExampleId == <<"a", ".", "b", ".", "B", "e", "n", "c", "h", ".", "r", "u", "n">>

\* "org.bench.FooBenchmark.insert"
LongExampleId ==
    <<"o", "r", "g", ".", "b", "e", "n", "c", "h", ".", "F", "o", "o", "B", "e", "n",
      "c", "h", "m", "a", "r", "k", ".", "i", "n", "s", "e", "r", "t">>

ParamNames == <<"size", "threads", "batch", "rate">>

Metric(score) == [score |-> score, scoreUnit |-> "ops/s"]

Record(benchmark, params, score) ==
    [benchmark |-> benchmark, params |-> params, primaryMetric |-> Metric(score)]

\* the params objects with at most n entries, their values drawn from values
ParamLists(values, n) ==
    {[i \in DOMAIN f |-> [name |-> ParamNames[i], value |-> f[i]]] :
        f \in UNION {[1..k -> values] : k \in 0..Min({n, Len(ParamNames)})}}

SizeTen == <<[name |-> "size", value |-> StrValue(<<"1", "0">>)]>>

\* records that lack one of the fields the loop body reads
Incomplete ==
    {[params |-> SizeTen, primaryMetric |-> Metric(Dec(5, 5))],
     [benchmark |-> ExampleId, primaryMetric |-> Metric(Dec(5, 5))],
     [benchmark |-> ExampleId, params |-> SizeTen],
     [benchmark |-> ExampleId, params |-> SizeTen,
      primaryMetric |-> [scoreUnit |-> "ops/s"]]}

\* corpus of SpecA: the shape of the input (files, records, parameter counts,
\* missing fields), over one identifier, one good and one bad value
RecordsA ==
    {Record(ExampleId, ps, sc) :
        ps \in ParamLists({StrValue(<<"1", "0">>), StrValue(<<"x">>)}, MaxParams),
        sc \in {Dec(5, 5), Whole(7)}}
    \cup Incomplete

\* corpus of SpecLabel: the benchmark identifiers
IdAlphabet == {"a", "."}
BenchmarkIds == UNION {[1..n -> IdAlphabet] : n \in 0..MaxIdLen}
                \cup {ExampleId, LongExampleId}
TwoParams ==
    <<[name |-> "size", value |-> StrValue(<<"1", "0">>)],
      [name |-> "threads", value |-> StrValue(<<"2">>)]>>
RecordsLabel == {Record(id, TwoParams, Dec(5, 5)) : id \in BenchmarkIds}

\* corpus of SpecConv: the parameter values
ParamValues ==
    {StrValue(<<"1", "0">>), StrValue(<<"-", "3">>), StrValue(<<" ", "7">>),
     StrValue(<<"x">>), StrValue(<<"1", ".", "5">>), StrValue(<<>>),
     NumValue(Whole(10)), NumValue(Dec(10, 5)), NumValue(Dec(-2, -5))}
RecordsConv == {Record(ExampleId, ps, Dec(5, 5)) : ps \in ParamLists(ParamValues, 2)}

\* what a matched file may hold when it is opened: malformed JSON, or an
\* array of at most room records
FileContents(corpus, room) ==
    {[malformed |-> TRUE, records |-> <<>>]}
    \cup {[malformed |-> FALSE, records |-> r] :
            r \in UNION {[1..n -> corpus] : n \in 0..room}}

InitA ==
    /\ pcA = "glob" /\ nFiles = 0 /\ fileIdx = 0 /\ results = <<>> /\ recIdx = 0
    /\ data = <<>> /\ table = NoTable /\ rendered = FALSE /\ outputA = FALSE
    /\ errA = NoRaise /\ loaded = 0 /\ processed = <<>> /\ sawBad = FALSE
    /\ IdleT /\ IdleB

\* line 48: file_paths = glob.glob(input_pattern)
Glob ==
    /\ pcA = "glob"
    /\ nFiles' \in 0..MaxFiles
    /\ pcA' = "files"
    /\ UNCHANGED <<fileIdx, results, recIdx, data, table, rendered, outputA, errA,
                   loaded, processed, sawBad, varsT, varsB>>

\* lines 10-12: the next file of file_paths is opened and parsed.  loaded
\* counts the records read so far and is capped at MaxRecords; sawBad records
\* that the file is malformed or holds a record lacking a required field.
OpenFile(corpus) ==
    /\ pcA = "files"
    /\ fileIdx < nFiles
    /\ \E content \in FileContents(corpus, MaxRecords - loaded) :
        LET j == JsonLoad(content)
        IN  /\ fileIdx' = fileIdx + 1
            /\ sawBad' = (sawBad \/ content.malformed
                          \/ \E i \in DOMAIN content.records :
                                ~HasRequiredFields(content.records[i]))
            /\ IF j.ok
               THEN /\ results' = j.val
                    /\ recIdx' = 1
                    /\ loaded' = loaded + Len(j.val)
                    /\ pcA' = IF j.val = <<>> THEN "files" ELSE "records"
                    /\ errA' = errA
               ELSE /\ pcA' = "failed"
                    /\ errA' = Raise("JSONDecodeError", 12)
                    /\ UNCHANGED <<results, recIdx, loaded>>
    /\ UNCHANGED <<nFiles, data, table, rendered, outputA, processed, varsT, varsB>>

\* lines 13-24: one pass of the loop over results
ProcessRecord ==
    /\ pcA = "records"
    /\ LET b == LoopBody(results[recIdx])
       IN  /\ data' = data \o b.rows
           /\ IF b.err = NoRaise
              THEN /\ processed' = Append(processed, results[recIdx])
                   /\ recIdx' = recIdx + 1
                   /\ pcA' = IF recIdx = Len(results) THEN "files" ELSE "records"
                   /\ errA' = errA
              ELSE /\ pcA' = "failed"
                   /\ errA' = b.err
                   /\ UNCHANGED <<processed, recIdx>>
    /\ UNCHANGED <<nFiles, fileIdx, results, table, rendered, outputA, loaded, sawBad,
                   varsT, varsB>>

\* line 25 and line 49: return pd.DataFrame(data), once every file is done
ReturnTable ==
    /\ pcA = "files"
    /\ fileIdx = nFiles
    /\ LET t == DataFrame(data)
       IN  IF t.ok
           THEN /\ table' = [returned |-> TRUE, rows |-> t.rows]
                /\ pcA' = "plot"
                /\ errA' = errA
           ELSE /\ pcA' = "failed"
                /\ errA' = Raise("ValueError", 25)
                /\ table' = table
    /\ UNCHANGED <<nFiles, fileIdx, results, recIdx, data, rendered, outputA, loaded,
                   processed, sawBad, varsT, varsB>>

\* lines 27-41 and line 50: plot_results draws the chart with the plotting
\* library, which succeeds or raises
PlotResults ==
    /\ pcA = "plot"
    /\ rendered' = TRUE
    /\ \E ok \in BOOLEAN :
        IF ok
        THEN pcA' = "save" /\ errA' = errA
        ELSE pcA' = "failed" /\ errA' = Raise("LibraryError", 29)
    /\ UNCHANGED <<nFiles, fileIdx, results, recIdx, data, table, outputA, loaded,
                   processed, sawBad, varsT, varsB>>

\* line 42: g.savefig(output, format='svg'), which writes the file or raises
SaveFigA ==
    /\ pcA = "save"
    /\ \E ok \in BOOLEAN :
        IF ok
        THEN pcA' = "done" /\ outputA' = TRUE /\ errA' = errA
        ELSE pcA' = "failed" /\ outputA' = outputA /\ errA' = Raise("OSError", 42)
    /\ UNCHANGED <<nFiles, fileIdx, results, recIdx, data, table, rendered, loaded,
                   processed, sawBad, varsT, varsB>>

NextA ==
    Glob \/ OpenFile(RecordsA) \/ ProcessRecord \/ ReturnTable \/ PlotResults \/ SaveFigA

SpecA == InitA /\ [][NextA]_vars

NextLabel ==
    Glob \/ OpenFile(RecordsLabel) \/ ProcessRecord \/ ReturnTable \/ PlotResults
         \/ SaveFigA

SpecLabel == InitA /\ [][NextLabel]_vars

NextConv ==
    Glob \/ OpenFile(RecordsConv) \/ ProcessRecord \/ ReturnTable \/ PlotResults
         \/ SaveFigA

SpecConv == InitA /\ [][NextConv]_vars

----------------------------------------------------------------------------
\* Claims about pipeline A.  processed is the sequence of the records whose
\* loop body has completed; the rows of processed[i] are looked for in data
\* right after the rows of processed[1..i-1].

RECURSIVE ParamCount(_)
ParamCount(recs) ==
    IF recs = <<>> THEN 0
    ELSE ParamCount(SubSeq(recs, 1, Len(recs) - 1)) + Len(recs[Len(recs)].params)

Offset(i) == ParamCount(SubSeq(processed, 1, i - 1))

\* the loader or the reshaper raised (no table was returned)
ReshaperFailed == pcA = "failed" /\ ~table.returned

\* C4: every valid record with N >= 0 parameters is turned into exactly N
\* rows, one per (name, value) pair, each carrying the record's score; the
\* returned table holds the rows of all records of all files and nothing
\* else, so its row count is the sum of the records' parameter counts.
C4_RowsPerRecord ==
    ~ReshaperFailed =>
        /\ Len(data) = ParamCount(processed)
        /\ \A i \in DOMAIN processed :
            \A k \in DOMAIN processed[i].params :
                /\ Offset(i) + k \in DOMAIN data
                /\ data[Offset(i) + k].score = processed[i].primaryMetric.score
                /\ data[Offset(i) + k].param = processed[i].params[k].name
        /\ table.returned =>
            /\ table.rows = data
            /\ Len(processed) = loaded

\* C4's case: the record {a.b.Bench.run, {size: "10"}, 5.5} and a record
\* without parameters, in two files, give the one row (run, size, 10, 5.5)
C4_Witness ==
    /\ table.returned /\ nFiles = 2 /\ fileIdx = 2
    /\ processed = <<Record(ExampleId, SizeTen, Dec(5, 5)),
                     Record(ExampleId, <<>>, Whole(7))>>
    /\ table.rows = <<[benchmark |-> <<"r", "u", "n">>, param |-> "size",
                       value |-> 10, score |-> Dec(5, 5)]>>

\* the part of s after its last '.', all of s when it holds none
AfterLastDot(s) ==
    LET dots == {i \in DOMAIN s : s[i] = "."}
    IN  IF dots = {} THEN s ELSE SubSeq(s, Max(dots) + 1, Len(s))

\* C5: the benchmark label of every row is the part of the record's
\* identifier after its last '.' (the whole identifier when it holds no '.',
\* the empty string when it ends with '.'), and the rows of one record share
\* the label.
C5_LabelAfterLastDot ==
    ~ReshaperFailed =>
        \A i \in DOMAIN processed :
            \A k \in DOMAIN processed[i].params :
                LET id == processed[i].benchmark
                    label == data[Offset(i) + k].benchmark
                IN  /\ label = AfterLastDot(id)
                    /\ \A j \in DOMAIN label : label[j] # "."
                    /\ (\A j \in DOMAIN id : id[j] # ".") => label = id
                    /\ (id # <<>> /\ id[Len(id)] = ".") => label = <<>>
                    /\ label = data[Offset(i) + 1].benchmark

\* C5's case: rows of "a.b.Bench.run" labelled "run", then rows of "a."
\* labelled with the empty string
C5_Witness ==
    /\ Len(processed) = 2 /\ Len(data) = 4
    /\ processed[1].benchmark = ExampleId
    /\ data[1].benchmark = <<"r", "u", "n">> /\ data[2].benchmark = <<"r", "u", "n">>
    /\ processed[2].benchmark = <<"a", ".">>
    /\ data[3].benchmark = <<>> /\ data[4].benchmark = <<>>

\* C7: once a matched file was malformed JSON or held a record lacking
\* benchmark, params or primaryMetric.score, the run fails: no table is
\* returned, the renderer is not invoked and no output is written, whatever
\* was valid before (the run is at most still working through the records
\* that precede the bad one).
C7_BadInputFailsRun ==
    sawBad =>
        /\ pcA \in {"records", "failed"}
        /\ ~table.returned /\ ~rendered /\ ~outputA
        /\ pcA = "failed" => errA.line \in 12..22

\* C7's case: the second file is bad after a first file whose record was
\* valid and gave rows
C7_Witness ==
    /\ sawBad /\ pcA = "failed" /\ fileIdx = 2
    /\ errA.type \in {"JSONDecodeError", "KeyError"}
    /\ Len(processed) >= 1 /\ data # <<>>

\* C8: when the glob matches no file, the loader and the reshaper complete
\* without error and return a table without rows; such a run can fail only
\* in the renderer.
C8_EmptyGlobEmptyTable ==
    (pcA # "glob" /\ nFiles = 0) =>
        /\ data = <<>>
        /\ pcA \in {"files", "plot", "save", "done", "failed"}
        /\ pcA # "files" => (table.returned /\ table.rows = <<>>)
        /\ pcA = "failed" => (rendered /\ errA.line \in 27..42)

\* C8's case: no file matched, the empty table was returned, and the
\* renderer was reached
C8_Witness ==
    /\ nFiles = 0 /\ table.returned /\ table.rows = <<>> /\ rendered
    /\ pcA \in {"save", "failed"}

DigitChar == <<"0", "1", "2", "3", "4", "5", "6", "7", "8", "9">>

\* the decimal numeral of an integer
RECURSIVE Numeral(_)
Numeral(n) ==
    IF n < 0 THEN <<"-">> \o Numeral(-n)
    ELSE IF n < 10 THEN <<DigitChar[n + 1]>>
    ELSE Numeral(n \div 10) \o <<DigitChar[(n % 10) + 1]>>

\* the value is the integer n: its numeral as a string (blanks around it
\* aside), or the number n
IsInteger(value, n) ==
    \/ value.kind = "str" /\ Strip(value.s) = Numeral(n)
    \/ value.kind = "num" /\ value.v = Whole(n)

\* C9: a row is emitted for a parameter only when its value is
\* representable as an integer, and the row's value is that integer; a
\* value that is not (a non-numeric string, a string or a JSON number with
\* a fractional part) fails the run instead.
C9_OnlyIntegersEmitted ==
    ~ReshaperFailed =>
        \A i \in DOMAIN processed :
            \A k \in DOMAIN processed[i].params :
                \E n \in -99..99 :
                    /\ IsInteger(processed[i].params[k].value, n)
                    /\ data[Offset(i) + k].value = n

====
